---- MODULE Spec2Model ----
(***************************************************************************)
(* A model of the pkatz viewer (src/src/ftr/pkatz.c): the viewer state,    *)
(* its key / button / motion handlers, the inversion map, the monotone     *)
(* chain convex hull and the hull part of the frame painter.               *)
(*                                                                         *)
(* C floats are modelled as exact rationals <<num, den>> in lowest terms   *)
(* (den > 0), with the three non-finite values NaN = <<0,0>>,              *)
(* +inf = <<1,0>> and -inf = <<-1,0>>.  Rounding of finite results is not  *)
(* modelled; division by zero, NaN propagation and NaN comparisons are.    *)
(***************************************************************************)
EXTENDS Integers, Sequences, FiniteSets, TLC

\* ------------------------------------------------------------------------
\* Float arithmetic
\* ------------------------------------------------------------------------

Abs(i) == IF i < 0 THEN -i ELSE i

Sign(i) == IF i < 0 THEN -1 ELSE IF i > 0 THEN 1 ELSE 0

RECURSIVE Gcd(_, _)
Gcd(a, b) == IF b = 0 THEN a ELSE Gcd(b, a % b)

NaN == <<0, 0>>

IsNaN(a) == a[2] = 0 /\ a[1] = 0

IsInf(a) == a[2] = 0 /\ a[1] # 0

IsFinite(a) == a[2] > 0

\* the float holding the integer i (int -> float conversion)
F(i) == <<i, 1>>

\* n/d (d # 0) in lowest terms
Reduce(n, d, g) ==
    IF d < 0 THEN <<-(n \div g), -(d \div g)>> ELSE <<n \div g, d \div g>>

Norm(n, d) == Reduce(n, d, Gcd(Abs(n), Abs(d)))

FNeg(a) == <<-a[1], a[2]>>

\* the product of finite a and b, cancelling g1 and g2 crosswise first
MulReduced(a, b, g1, g2) ==
    <<(a[1] \div g1) * (b[1] \div g2), (a[2] \div g2) * (b[2] \div g1)>>

FMul(a, b) ==
    IF IsNaN(a) \/ IsNaN(b) THEN NaN
    ELSE IF IsInf(a) \/ IsInf(b)
         THEN (IF a[1] = 0 \/ b[1] = 0 THEN NaN ELSE <<Sign(a[1]) * Sign(b[1]), 0>>)
    ELSE MulReduced(a, b, Gcd(Abs(a[1]), b[2]), Gcd(Abs(b[1]), a[2]))

FDiv(a, b) ==
    IF IsNaN(a) \/ IsNaN(b) THEN NaN
    ELSE IF IsInf(b) THEN (IF IsInf(a) THEN NaN ELSE F(0))
    ELSE IF b[1] = 0 THEN (IF a[1] = 0 THEN NaN ELSE <<Sign(a[1]), 0>>)
    ELSE IF IsInf(a) THEN <<Sign(a[1]) * Sign(b[1]), 0>>
    ELSE FMul(a, IF b[1] < 0 THEN <<-b[2], -b[1]>> ELSE <<b[2], b[1]>>)

\* the sum of finite a and b over their least common denominator
AddOver(a, b, g) ==
    Norm(a[1] * (b[2] \div g) + b[1] * (a[2] \div g), (a[2] \div g) * b[2])

FAdd(a, b) ==
    IF IsNaN(a) \/ IsNaN(b) THEN NaN
    ELSE IF IsInf(a) THEN (IF IsInf(b) /\ a[1] # b[1] THEN NaN ELSE a)
    ELSE IF IsInf(b) THEN b
    ELSE AddOver(a, b, Gcd(a[2], b[2]))

FSub(a, b) == FAdd(a, FNeg(b))

\* a < b, a <= b, a > b on floats: every comparison with a NaN is false
LessOver(a, b, g) == a[1] * (b[2] \div g) < b[1] * (a[2] \div g)

FLt(a, b) ==
    IF IsNaN(a) \/ IsNaN(b) THEN FALSE
    ELSE IF IsInf(a) \/ IsInf(b)
         THEN (IF IsInf(a) /\ IsInf(b) THEN a[1] < b[1]
               ELSE IF IsInf(a) THEN a[1] < 0 ELSE b[1] > 0)
    ELSE LessOver(a, b, Gcd(a[2], b[2]))

FLe(a, b) == ~IsNaN(a) /\ ~IsNaN(b) /\ ~FLt(b, a)

FGt(a, b) == FLt(b, a)

FAbs(a) == <<Abs(a[1]), a[2]>>

\* (int) a for a finite a: the fractional part is discarded
ToInt(a) == IF a[1] >= 0 THEN a[1] \div a[2] ELSE -((-a[1]) \div a[2])

\* two-limb naturals, for squares that do not fit a machine word
WBase == 2 ^ 15

WSq(A) ==
    <<(A \div WBase) * (A \div WBase) * WBase + 2 * (A \div WBase) * (A % WBase)
        + ((A % WBase) * (A % WBase)) \div WBase,
      ((A % WBase) * (A % WBase)) % WBase>>

WAdd(p, q) == <<p[1] + q[1] + (p[2] + q[2]) \div WBase, (p[2] + q[2]) % WBase>>

WLt(p, q) == p[1] < q[1] \/ (p[1] = q[1] /\ p[2] < q[2])

Lcm(a, b) == (a \div Gcd(a, b)) * b

\* hypot(a, b) < t for finite a, b and finite t > 0, decided exactly
SquaresLess(a, b, t, L) ==
    WLt(WAdd(WSq(Abs(a[1]) * (L \div a[2])), WSq(Abs(b[1]) * (L \div b[2]))),
        WSq(t[1] * (L \div t[2])))

HypotLt(a, b, t) ==
    IF ~FLt(FAbs(a), t) \/ ~FLt(FAbs(b), t) THEN FALSE
    ELSE SquaresLess(a, b, t, Lcm(Lcm(a[2], b[2]), t[2]))

RECURSIVE IsqrtFrom(_, _)
IsqrtFrom(n, x) ==
    IF (x + n \div x) \div 2 >= x THEN x ELSE IsqrtFrom(n, (x + n \div x) \div 2)

\* the integer part of the square root of n >= 0
Isqrt(n) == IF n = 0 THEN 0 ELSE IsqrtFrom(n, n)

WHalf == 2 ^ 14

\* sqrt(A^2 + B^2) / L for naturals A, B and L > 0.  The root is exact when it
\* is rational; otherwise it is rounded toward zero, to a sixteenth of 1/L
\* while the radicand is small and to whole units of the operands beyond that
RootOf(S, q, s, L) ==
    IF s = 1 /\ q * q # S /\ S < WHalf
    THEN Norm(Isqrt(S * 256), 16 * L)
    ELSE Norm(q * s, L)

SumOfSquares(A, B, s) == (A \div s) * (A \div s) + (B \div s) * (B \div s)

Scaled(A, B, s, L) ==
    RootOf(SumOfSquares(A, B, s), Isqrt(SumOfSquares(A, B, s)), s, L)

HypotOf(A, B, L) == Scaled(A, B, (IF A > B THEN A ELSE B) \div WHalf + 1, L)

HypotOver(a, b, L) == HypotOf(Abs(a[1]) * (L \div a[2]), Abs(b[1]) * (L \div b[2]), L)

\* hypot(a, b)
Hypot(a, b) ==
    IF IsInf(a) \/ IsInf(b) THEN <<1, 0>>
    ELSE IF IsNaN(a) \/ IsNaN(b) THEN NaN
    ELSE HypotOver(a, b, Lcm(a[2], b[2]))

\* ------------------------------------------------------------------------
\* Program constants
\* ------------------------------------------------------------------------

DISK_RADIUS == <<73, 10>>

POINT_RADIUS == <<23, 10>>

ZOOM_FACTOR == <<143, 100>>

RADIUS_FACTOR == <<113, 100>>

\* button identifiers of the toolkit header; a release is the negated id
FTR_BUTTON_LEFT == 256

FTR_BUTTON_MIDDLE == 512

FTR_BUTTON_RIGHT == 1024

FTR_BUTTON_UP == 2048

FTR_BUTTON_DOWN == 4096

\* m & b for a single-bit b
BitAnd(m, b) == IF (m \div b) % 2 = 1 THEN b ELSE 0

Digits == {"0", "1", "2", "3", "4", "5", "6", "7", "8", "9"}

\* k - '0' for a digit key
DigitValue(k) ==
    CASE k = "0" -> 0 [] k = "1" -> 1 [] k = "2" -> 2 [] k = "3" -> 3 [] k = "4" -> 4
      [] k = "5" -> 5 [] k = "6" -> 6 [] k = "7" -> 7 [] k = "8" -> 8 [] k = "9" -> 9

\* ------------------------------------------------------------------------
\* State
\* ------------------------------------------------------------------------

VARIABLES
    e,      \* struct viewer_state
    f,      \* the visible part of struct FTR: w, h, changed, do_exit
    ev,     \* the event handled last: [type, k, m, x, y]
    drag,   \* history of the background drag in progress
    nev,    \* number of events handled so far
    pc,     \* "run" in the event loop; "input" / "done" around a computation
    hw,     \* number of point cells of the hull buffer z written so far
    drawn,  \* the hull segments drawn by the last frame
    written,\* the byte indexes of f->rgb written by the last drawing primitive
    res     \* what the operation applied last returned

vars == <<e, f, ev, drag, nev, pc, hw, drawn, written, res>>

\* nothing returned yet
NoResult == "none"

\* content of memory that was allocated or declared and never written
Uninit == "uninit"

\* ------------------------------------------------------------------------
\* SECTION 1. center_view
\* ------------------------------------------------------------------------

center_view(ee) ==
    [ee EXCEPT !.c = <<F(100), F(100)>>,
               !.r = F(400),
               !.dragging_window_point = FALSE,
               !.dragging_image_point = FALSE,
               !.dragged_point = -1,
               !.dragging_background = FALSE,
               !.offset = <<F(0), F(0)>>,
               !.scale = F(1),
               !.interpolation_order = 0,
               !.tile_plane = FALSE,
               !.show_horizon = FALSE,
               !.show_grid_points = FALSE,
               !.restrict_to_affine = FALSE,
               !.show_debug = FALSE]

\* ------------------------------------------------------------------------
\* SECTION 4. Coordinate conversions
\* ------------------------------------------------------------------------

map_view_to_window(ee, x) ==
    <<FAdd(ee.offset[1], FMul(ee.scale, x[1])), FAdd(ee.offset[2], FMul(ee.scale, x[2]))>>

\* a variant of the inverse map that scales instead of dividing
map_window_to_view_multiplying(ee, x) ==
    <<FMul(FSub(x[1], ee.offset[1]), ee.scale), FMul(FSub(x[2], ee.offset[2]), ee.scale)>>

map_window_to_view(ee, x) ==
    <<FDiv(FSub(x[1], ee.offset[1]), ee.scale), FDiv(FSub(x[2], ee.offset[2]), ee.scale)>>

\* ------------------------------------------------------------------------
\* SECTION 8. User-interface actions and events
\* ------------------------------------------------------------------------

change_view_offset(ee, dx, dy) ==
    [ee EXCEPT !.offset = <<FAdd(ee.offset[1], F(dx)), FAdd(ee.offset[2], F(dy))>>]

\* a variant of the zoom that computes the offset with the scale before it
rescale_about_with_old_scale(ee, X, center, scale) ==
    [ee EXCEPT !.scale = scale,
               !.offset = <<FAdd(FMul(FNeg(center[1]), ee.scale), X[1]),
                            FAdd(FMul(FNeg(center[2]), ee.scale), X[2])>>]

\* e->scale *= fac, then the offset that keeps view point center under X
rescale_about(ee, X, center, scale) ==
    [ee EXCEPT !.scale = scale,
               !.offset = <<FAdd(FMul(FNeg(center[1]), scale), X[1]),
                            FAdd(FMul(FNeg(center[2]), scale), X[2])>>]

\* a variant of the zoom that keeps the scale in whole units
change_view_scale_in_whole_units(ee, x, y, fac) ==
    rescale_about(ee, <<F(x), F(y)>>, map_window_to_view(ee, <<F(x), F(y)>>),
                  F(ToInt(FMul(ee.scale, fac))))

change_view_scale(ee, x, y, fac) ==
    rescale_about(ee, <<F(x), F(y)>>, map_window_to_view(ee, <<F(x), F(y)>>),
                  FMul(ee.scale, fac))

change_radius(ee, x, y, fac) == [ee EXCEPT !.r = FMul(ee.r, fac)]

drag_point_in_window_domain(ee, x, y) ==
    [ee EXCEPT !.c = map_window_to_view(ee, <<F(x), F(y)>>)]

\* hypot(P[0] - x, P[1] - y) < 2 + DISK_RADIUS
within_handle(P, x, y) ==
    HypotLt(FSub(P[1], F(x)), FSub(P[2], F(y)), FAdd(F(2), DISK_RADIUS))

hit_point(ee, x, y) ==
    IF within_handle(map_view_to_window(ee, ee.c), x, y) THEN 0 ELSE -1

\* the reciprocal factor 1.0/fac
Recip(fac) == FDiv(F(1), fac)

\* event_key after the 'q' test: the bindings in the order of the source, then
\* the reset of the two point-drag flags
key_view(ee, k) ==
    IF k = "c" THEN center_view(ee)
    ELSE IF k = "j" THEN change_view_offset(ee, 0, -10)
    ELSE IF k = "k" THEN change_view_offset(ee, 0, 10)
    ELSE IF k = "h" THEN change_view_offset(ee, 10, 0)
    ELSE IF k = "l" THEN change_view_offset(ee, -10, 0)
    ELSE IF k = "FTR_KEY_DOWN" THEN change_view_offset(ee, 0, -100)
    ELSE IF k = "FTR_KEY_UP" THEN change_view_offset(ee, 0, 100)
    ELSE IF k = "FTR_KEY_RIGHT" THEN change_view_offset(ee, -100, 0)
    ELSE IF k = "FTR_KEY_LEFT" THEN change_view_offset(ee, 100, 0)
    ELSE ee

key_zoom(ee, ff, k) ==
    IF k = "+" THEN change_view_scale(ee, ff.w \div 2, ff.h \div 2, ZOOM_FACTOR)
    ELSE IF k = "-" THEN change_view_scale(ee, ff.w \div 2, ff.h \div 2, Recip(ZOOM_FACTOR))
    ELSE ee

key_options(ee, k) ==
    IF k = "p" THEN [ee EXCEPT !.tile_plane = ~ee.tile_plane]
    ELSE IF k = "w" THEN [ee EXCEPT !.show_horizon = ~ee.show_horizon]
    ELSE IF k \in Digits THEN [ee EXCEPT !.interpolation_order = DigitValue(k)]
    ELSE IF k = "." THEN [ee EXCEPT !.show_grid_points = ~ee.show_grid_points]
    ELSE IF k = "d" THEN [ee EXCEPT !.show_debug = ~ee.show_debug]
    ELSE ee

key_reset_drag(ee) ==
    [ee EXCEPT !.dragging_window_point = FALSE, !.dragging_image_point = FALSE]

event_key(ee, ff, k) == key_reset_drag(key_options(key_zoom(key_view(ee, k), ff, k), k))

\* begin dragging a control point in the window domain (p is the hit test)
button_begin_point(ee, k, p) ==
    IF k = FTR_BUTTON_LEFT /\ p >= 0
    THEN [ee EXCEPT !.dragged_point = p, !.dragging_window_point = TRUE]
    ELSE ee

\* end dragging a control point in the window domain
button_end_point(ee, k, x, y) ==
    IF ee.dragging_window_point /\ k = -FTR_BUTTON_LEFT
    THEN [drag_point_in_window_domain(ee, x, y)
              EXCEPT !.dragging_window_point = FALSE, !.dragged_point = -1]
    ELSE ee

\* begin dragging a control point in the image domain
button_begin_image(ee, k, p) ==
    IF k = FTR_BUTTON_RIGHT /\ p >= 0
    THEN [ee EXCEPT !.dragged_point = p, !.dragging_image_point = TRUE]
    ELSE ee

\* begin dragging the window background
button_begin_background(ee, k, x, y) ==
    IF k = FTR_BUTTON_LEFT /\ hit_point(ee, x, y) < 0
    THEN [ee EXCEPT !.drag_handle = <<x, y>>, !.dragging_background = TRUE]
    ELSE ee

\* end dragging the window background
button_end_background(ee, k, x, y) ==
    IF ee.dragging_background /\ k = -FTR_BUTTON_LEFT
    THEN [change_view_offset(ee, x - ee.drag_handle[1], y - ee.drag_handle[2])
              EXCEPT !.dragging_background = FALSE]
    ELSE ee

\* a variant of the wheel block that zooms wherever the pointer is
button_wheel_always_zooming(ee, k, x, y, b, zoom, radius) ==
    IF k = b THEN change_view_scale(ee, x, y, zoom) ELSE ee

\* radius in/out (if hit), zoom in/out (if no hit)
button_wheel(ee, k, x, y, b, zoom, radius) ==
    IF k = b
    THEN (IF hit_point(ee, x, y) < 0
          THEN change_view_scale(ee, x, y, zoom)
          ELSE change_radius(ee, x, y, radius))
    ELSE ee

\* the blocks of event_button in the order of the source, p = hit_point(e, x, y)
button_blocks(ee, k, x, y, p) ==
    button_wheel(
      button_wheel(
        button_end_background(
          button_begin_background(
            button_begin_image(
              button_end_point(button_begin_point(ee, k, p), k, x, y),
              k, p),
            k, x, y),
          k, x, y),
        k, x, y, FTR_BUTTON_DOWN, ZOOM_FACTOR, RADIUS_FACTOR),
      k, x, y, FTR_BUTTON_UP, Recip(ZOOM_FACTOR), Recip(RADIUS_FACTOR))

event_button(ee, k, x, y) == button_blocks(ee, k, x, y, hit_point(ee, x, y))

\* the two branches of event_motion
motion_drags_point(ee, m) == ee.dragging_window_point /\ BitAnd(m, FTR_BUTTON_LEFT) # 0

motion_drags_background(ee, m) == ee.dragging_background /\ BitAnd(m, FTR_BUTTON_LEFT) # 0

\* drag WINDOW DOMAIN control point (realtime feedback)
motion_point(ee, m, x, y) ==
    IF motion_drags_point(ee, m) THEN drag_point_in_window_domain(ee, x, y) ELSE ee

\* a variant of the background branch that does not move the anchor along
motion_background_keeping_anchor(ee, m, x, y) ==
    IF motion_drags_background(ee, m)
    THEN change_view_offset(ee, x - ee.drag_handle[1], y - ee.drag_handle[2])
    ELSE ee

\* drag WINDOW DOMAIN background (realtime feedback)
motion_background(ee, m, x, y) ==
    IF motion_drags_background(ee, m)
    THEN [change_view_offset(ee, x - ee.drag_handle[1], y - ee.drag_handle[2])
              EXCEPT !.drag_handle = <<x, y>>]
    ELSE ee

event_motion(ee, m, x, y) == motion_background(motion_point(ee, m, x, y), m, x, y)

\* ------------------------------------------------------------------------
\* SECTION 3. Katz algorithm
\* ------------------------------------------------------------------------

\* float r = hypot(x[0] - c[0], x[1] - c[1])
distance(c, x) == Hypot(FSub(x[1], c[1]), FSub(x[2], c[2]))

classic_at(c, R, x, r) ==
    <<FAdd(c[1], FDiv(FDiv(FMul(FMul(R, R), FSub(x[1], c[1])), r), r)),
      FAdd(c[2], FDiv(FDiv(FMul(FMul(R, R), FSub(x[2], c[2])), r), r))>>

invert_point_classic(c, R, x) == classic_at(c, R, x, distance(c, x))

\* y = x + 2*(R-r)*(x - c)/r, with no test of r
flip_at(c, R, x, r) ==
    <<FAdd(x[1], FDiv(FMul(FMul(F(2), FSub(R, r)), FSub(x[1], c[1])), r)),
      FAdd(x[2], FDiv(FMul(FMul(F(2), FSub(R, r)), FSub(x[2], c[2])), r))>>

\* "katz inversion"
invert_point_flip(c, R, x) == flip_at(c, R, x, distance(c, x))

\* a variant of the flip map that loses the factor 2
flip_at_without_doubling(c, R, x, r) ==
    <<FAdd(x[1], FDiv(FMul(FSub(R, r), FSub(x[1], c[1])), r)),
      FAdd(x[2], FDiv(FMul(FSub(R, r), FSub(x[2], c[2])), r))>>

invert_point_without_doubling(c, R, x) ==
    flip_at_without_doubling(c, R, x, distance(c, x))

invert_point(c, R, x) == invert_point_flip(c, R, x)

invert_points(c, R, x) == [i \in 1..Len(x) |-> invert_point(c, R, x[i])]

compute_points_inversion(ee) == [ee EXCEPT !.y = invert_points(ee.c, ee.r, ee.x)]

\* ------------------------------------------------------------------------
\* Convex hull (SECTION 3, continued)
\* ------------------------------------------------------------------------

\* (s > t) - (s < t)
Order(s, t) == (IF FGt(s, t) THEN 1 ELSE 0) - (IF FLt(s, t) THEN 1 ELSE 0)

compare_points_lexicographically(a, b) ==
    IF Order(a[1], b[1]) # 0 THEN Order(a[1], b[1]) ELSE Order(a[2], b[2])

\* p[0] * q[1] - p[1] * q[0]
cross(p, q) == FSub(FMul(p[1], q[2]), FMul(p[2], q[1]))

\* oriented area of a triangle
det(a, b, c) ==
    cross(<<FSub(b[1], a[1]), FSub(b[2], a[2])>>, <<FSub(c[1], a[1]), FSub(c[2], a[2])>>)

HasNaN(x) == \E i \in 1..Len(x) : IsNaN(x[i][1]) \/ IsNaN(x[i][2])

RECURSIVE Insert(_, _)
Insert(s, p) ==
    IF s = <<>> THEN <<p>>
    ELSE IF compare_points_lexicographically(p, Head(s)) < 0 THEN <<p>> \o s
    ELSE <<Head(s)>> \o Insert(Tail(s), p)

\* the points in the order of compare_points_lexicographically
RECURSIVE SortedPoints(_)
SortedPoints(x) == IF x = <<>> THEN <<>> ELSE Insert(SortedPoints(Tail(x)), Head(x))

Rearrangements(x) ==
    {[i \in 1..Len(x) |-> x[g[i]]] :
        g \in {h \in [1..Len(x) -> 1..Len(x)] : \A i, j \in 1..Len(x) : h[i] = h[j] => i = j}}

\* qsort(x, n, 2*sizeof*x, compare_points_lexicographically).  A NaN
\* coordinate makes the comparison inconsistent, and the order that qsort
\* leaves is then unspecified: any rearrangement of the points.
qsort(x) == IF HasNaN(x) THEN Rearrangements(x) ELSE {SortedPoints(x)}

\* y[2*r+0] = p[0]; y[2*r+1] = p[1].  y holds every slot written so far.
Store(y, r, p) == IF r < Len(y) THEN [y EXCEPT ![r + 1] = p] ELSE Append(y, p)

\* a variant of the pop loop that pops on a left turn
RECURSIVE Pop_on_left_turn(_, _, _, _)
Pop_on_left_turn(y, r, k, p) ==
    IF r >= k /\ FLe(F(0), det(y[r - 1], y[r], p)) THEN Pop_on_left_turn(y, r - 1, k, p)
    ELSE r

\* a variant of the pop loop that keeps collinear points
RECURSIVE Pop_strict(_, _, _, _)
Pop_strict(y, r, k, p) ==
    IF r >= k /\ FLt(det(y[r - 1], y[r], p), F(0)) THEN Pop_strict(y, r - 1, k, p) ELSE r

\* while (r >= k && det(y+2*(r-2), y+2*(r-1), p) <= 0) r -= 1
RECURSIVE Pop(_, _, _, _)
Pop(y, r, k, p) ==
    IF r >= k /\ FLe(det(y[r - 1], y[r], p), F(0)) THEN Pop(y, r - 1, k, p) ELSE r

StoreAt(st, r, p) == [y |-> Store(st.y, r, p), r |-> r + 1]

\* one iteration of either loop
Push(st, k, p) == StoreAt(st, Pop(st.y, st.r, k, p), p)

\* fill-in the lower hull
RECURSIVE LowerHull(_, _, _)
LowerHull(st, x, i) == IF i > Len(x) THEN st ELSE LowerHull(Push(st, 2, x[i]), x, i + 1)

\* fill-in the upper hull
RECURSIVE UpperHull(_, _, _, _)
UpperHull(st, x, k, i) == IF i < 1 THEN st ELSE UpperHull(Push(st, k, x[i]), x, k, i - 1)

\* int k = r + 1, then the second loop
UpperFrom(lower, x) == UpperHull(lower, x, lower.r + 1, Len(x) - 1)

\* a variant that returns after the first loop, with the lower hull only
do_the_andrew_parkour_lower_only(x) == LowerHull([y |-> <<>>, r |-> 0], x, 1)

\* the hull of the sorted points x: the slots written and the count returned
do_the_andrew_parkour(x) == UpperFrom(LowerHull([y |-> <<>>, r |-> 0], x, 1), x)

with_hull(ee, sorted, h) == [ee EXCEPT !.y = sorted, !.z = h.y, !.m = h.r]

compute_red_points_convex_hull(ee, sorted) ==
    with_hull(ee, sorted, do_the_andrew_parkour(sorted))

\* ------------------------------------------------------------------------
\* SECTION 7. Drawing: the hull loop of paint_state
\* ------------------------------------------------------------------------

Segment(color, P, Q) == [color |-> color, P |-> P, Q |-> Q]

\* what iteration i of the hull loop draws (i counts from 1; z[i], z[i+1])
\* the drawing of one edge: P0, Q0 the hull edge in the window, P, Q the
\* edge of the points inverted again, C the centre
edge_segments(ee, P0, Q0, P, Q, C) ==
    (IF ee.show_debug THEN {Segment("gray", P0, Q0)} ELSE {})
    \cup (IF FGt(det(P, Q, C), F(0)) THEN {Segment("blue", P, Q)}
          ELSE IF ee.show_debug THEN {Segment("cyan", P, Q)}
          ELSE {})

hull_edge(ee, i) ==
    edge_segments(ee,
        map_view_to_window(ee, ee.z[i]),
        map_view_to_window(ee, ee.z[i + 1]),
        map_view_to_window(ee, invert_point(ee.c, ee.r, ee.z[i])),
        map_view_to_window(ee, invert_point(ee.c, ee.r, ee.z[i + 1])),
        map_view_to_window(ee, ee.c))

\* for (i = 0; i < e->m - 1; i++)
hull_segments(ee) == UNION {hull_edge(ee, i) : i \in 1..(ee.m - 1)}

\* ------------------------------------------------------------------------
\* SECTION 7. Drawing: the pixel writes of the rasterizer
\* ------------------------------------------------------------------------

\* lrint(a) for a finite a: the nearest integer, the even one at a tie
Lrint(a) ==
    IF 2 * (a[1] % a[2]) < a[2] THEN a[1] \div a[2]
    ELSE IF 2 * (a[1] % a[2]) > a[2] THEN a[1] \div a[2] + 1
    ELSE IF (a[1] \div a[2]) % 2 = 0 THEN a[1] \div a[2]
    ELSE a[1] \div a[2] + 1

\* (int) a, where the conversion of a value that is no number or has no int
\* is undefined: u stands for what the build makes of it
ToIntOr(a, u) == IF IsFinite(a) THEN ToInt(a) ELSE u

\* a variant of the window test that lets the column w through
insideP_with_column_w(ff, x, y) == x >= 0 /\ y >= 0 /\ x <= ff.w /\ y < ff.h

\* funtion to test whether a point is inside the window
insideP(ff, x, y) == x >= 0 /\ y >= 0 /\ x < ff.w /\ y < ff.h

\* the three bytes of pixel idx
pixel_bytes(idx) == {3 * idx + 0, 3 * idx + 1, 3 * idx + 2}

\* plot_pixel_red, _blue, _cyan, _green, _gray: the byte indexes written
plot_pixel(ff, x, y) == IF insideP(ff, x, y) THEN pixel_bytes(ff.w * y + x) ELSE {}

\* the calls of the plot function, in order, when qx + qy >= px + py, p # q
segment_in_order(px, py, qx, qy) ==
    IF qx - px > qy - py \/ px - qx > qy - py
    THEN [n \in 1..(qx - px) |->
            <<(n - 1) + px,
              Lrint(FAdd(F(py), FMul(F(n - 1), FDiv(F(qy - py), F(qx - px)))))>>]
    ELSE [n \in 1..(qy - py + 1) |->
            <<Lrint(FAdd(F(px), FMul(F(n - 1), FDiv(F(qx - px), F(qy - py))))),
              (n - 1) + py>>]

\* generic function to traverse a segment between two pixels
RECURSIVE traverse_segment(_, _, _, _)
traverse_segment(px, py, qx, qy) ==
    IF px = qx /\ py = qy THEN <<<<px, py>>>>
    ELSE IF qx + qy < px + py THEN traverse_segment(qx, qy, px, py)
    ELSE segment_in_order(px, py, qx, qy)

\* the pixels of a sequence of calls
pixels_of(calls) == {calls[n] : n \in 1..Len(calls)}

\* int h = r / sqrt(2)
circle_half(r) == Sign(r) * Isqrt((r * r) \div 2)

\* the four pixels of step i, with s = sqrt(r*r - i*i)
circle_step(cx, cy, i, s) ==
    {<<cx + i, cy + s>>, <<cx + i, cy - s>>, <<cx + s, cy + i>>, <<cx - s, cy + i>>}

traverse_circle(cx, cy, r) ==
    UNION {circle_step(cx, cy, i, Isqrt(r * r - i * i)) :
              i \in (-circle_half(r))..circle_half(r)}

\* plot_segment_*, plot_circle_green: every pixel visited goes to plot_pixel
plot_pixels(ff, pixels) == UNION {plot_pixel(ff, q[1], q[2]) : q \in pixels}

\* the body of the loops of splat_disk for one (i, j) within the disk
splat_pixel(w, h, ii, jj) ==
    IF ii >= 0 /\ jj >= 0 /\ ii < w /\ jj < h THEN pixel_bytes(w * jj + ii) ELSE {}

\* the bounds of the loops: from (int)(-r-1) while the index is <= r+1
splat_range(r) == ToInt(FSub(FNeg(r), F(1)))..ToInt(FAdd(r, F(1)))

splat_disk(w, h, p, r, u) ==
    UNION {IF HypotLt(F(ij[1]), F(ij[2]), r)
           THEN splat_pixel(w, h, ToIntOr(FAdd(p[1], F(ij[1])), u),
                                  ToIntOr(FAdd(p[2], F(ij[2])), u))
           ELSE {} :
              ij \in splat_range(r) \X splat_range(r)}

\* central green dot
centre_dot(ff, ii, jj) == IF insideP(ff, ii, jj) THEN {3 * (ff.w * jj + ii) + 1} ELSE {}

\* draw the view point: the disk, then the dot
draw_view_center_at(ff, P, u) ==
    splat_disk(ff.w, ff.h, P, DISK_RADIUS, u)
    \cup centre_dot(ff, ToIntOr(P[1], u), ToIntOr(P[2], u))

draw_view_center(ff, ee, u) == draw_view_center_at(ff, map_view_to_window(ee, ee.c), u)

\* ------------------------------------------------------------------------
\* The viewer under events (main_pkatz: load, center_view, handlers)
\* ------------------------------------------------------------------------

\* bounds of the explored behaviours
MaxEvents == 4

MaxScalings == 1

\* inputs
Keys == {"q", "c", "h", "+", "-", "d", "5", "a"}

Buttons == {FTR_BUTTON_LEFT, FTR_BUTTON_MIDDLE, FTR_BUTTON_RIGHT,
            FTR_BUTTON_UP, FTR_BUTTON_DOWN}

ButtonCodes == Buttons \cup {-FTR_BUTTON_LEFT, -FTR_BUTTON_RIGHT}

Masks == {0, FTR_BUTTON_LEFT}

Pointers == {<<100, 100>>, <<105, 100>>, <<130, 90>>}

\* the point set read from stdin in the event-loop specification
LoadedPoints == << <<F(0), F(0)>>, <<F(4), F(0)>>, <<F(0), F(3)>> >>

\* struct viewer_state as main_pkatz leaves it before center_view
Loaded(n, x) ==
    [n |-> n, x |-> x, y |-> Uninit, z |-> Uninit, m |-> Uninit,
     c |-> Uninit, r |-> Uninit, offset |-> Uninit, scale |-> Uninit,
     dragging_window_point |-> Uninit, dragging_image_point |-> Uninit,
     dragging_background |-> Uninit, dragged_point |-> Uninit,
     drag_handle |-> Uninit, interpolation_order |-> Uninit,
     tile_plane |-> Uninit, show_horizon |-> Uninit, show_grid_points |-> Uninit,
     restrict_to_affine |-> Uninit, show_debug |-> Uninit]

\* the window of main_pkatz: 800 x 600, nothing requested yet
NewWindow == [w |-> 800, h |-> 600, changed |-> 0, do_exit |-> 0]

NoEvent == [type |-> "none", k |-> 0, m |-> 0, x |-> 0, y |-> 0]

NoDrag == [phase |-> "none", x0 |-> 0, y0 |-> 0, offset0 |-> <<F(0), F(0)>>,
           scale0 |-> F(1), moves |-> 0]

Init ==
    /\ e = center_view(Loaded(Len(LoadedPoints), LoadedPoints))
    /\ f = [NewWindow EXCEPT !.changed = 1]
    /\ ev = NoEvent
    /\ drag = NoDrag
    /\ nev = [events |-> 0, scalings |-> 0]
    /\ pc = "run"
    /\ hw = 0
    /\ drawn = {}
    /\ written = {}
    /\ res = NoResult

\* the loop hands an event to a handler only while no exit was requested
Running == pc = "run" /\ f.do_exit = 0 /\ nev.events < MaxEvents

\* whether handling the event rescales the view or the inversion radius
Rescales(ee, ee2) == ee2.scale # ee.scale \/ ee2.r # ee.r

Count(ee, ee2) ==
    [events |-> nev.events + 1,
     scalings |-> nev.scalings + (IF Rescales(ee, ee2) THEN 1 ELSE 0)]

\* ftr_notify_the_desire_to_stop_this_loop(f, 0)
ftr_notify_the_desire_to_stop_this_loop(ff) == [ff EXCEPT !.do_exit = 1]

KeyQuit ==
    /\ Running
    /\ f' = ftr_notify_the_desire_to_stop_this_loop(f)
    /\ ev' = [type |-> "key", k |-> "q", m |-> 0, x |-> 0, y |-> 0]
    /\ nev' = [nev EXCEPT !.events = @ + 1]
    /\ drag' = NoDrag
    /\ UNCHANGED <<e, pc, hw, drawn, written, res>>

Key ==
    /\ Running
    /\ \E k \in Keys \ {"q"} :
         \E e2 \in {event_key(e, f, k)} :
             /\ Rescales(e, e2) => nev.scalings < MaxScalings
             /\ e' = e2
             /\ ev' = [type |-> "key", k |-> k, m |-> 0, x |-> 0, y |-> 0]
             /\ nev' = Count(e, e2)
    /\ f' = [f EXCEPT !.changed = 1]
    /\ drag' = NoDrag
    /\ UNCHANGED <<pc, hw, drawn, written, res>>

\* the history of a background drag: begun by a primary press that misses the
\* handle, kept by motion events, ended by the primary release
DragAfterButton(ee, k, x, y) ==
    IF k = FTR_BUTTON_LEFT /\ hit_point(ee, x, y) < 0
    THEN [phase |-> "dragging", x0 |-> x, y0 |-> y, offset0 |-> ee.offset,
          scale0 |-> ee.scale, moves |-> 0]
    ELSE IF k = -FTR_BUTTON_LEFT /\ drag.phase = "dragging"
    THEN [drag EXCEPT !.phase = "released"]
    ELSE NoDrag

Button ==
    /\ Running
    /\ \E k \in ButtonCodes, p \in Pointers :
         \E e2 \in {event_button(e, k, p[1], p[2])} :
             /\ Rescales(e, e2) => nev.scalings < MaxScalings
             /\ e' = e2
             /\ ev' = [type |-> "button", k |-> k, m |-> 0, x |-> p[1], y |-> p[2]]
             /\ nev' = Count(e, e2)
             /\ drag' = DragAfterButton(e, k, p[1], p[2])
    /\ f' = [f EXCEPT !.changed = 1]
    /\ UNCHANGED <<pc, hw, drawn, written, res>>

\* a variant of the motion handler that does not mark the window changed
Motion_without_flag ==
    /\ Running
    /\ \E m \in Masks, p \in Pointers :
         /\ e' = event_motion(e, m, p[1], p[2])
         /\ ev' = [type |-> "motion", k |-> 0, m |-> m, x |-> p[1], y |-> p[2]]
    /\ nev' = [nev EXCEPT !.events = @ + 1]
    /\ drag' = IF drag.phase = "dragging" THEN [drag EXCEPT !.moves = @ + 1] ELSE NoDrag
    /\ UNCHANGED <<f, pc, hw, drawn, written, res>>

Motion ==
    /\ Running
    /\ \E m \in Masks, p \in Pointers :
         /\ e' = event_motion(e, m, p[1], p[2])
         /\ ev' = [type |-> "motion", k |-> 0, m |-> m, x |-> p[1], y |-> p[2]]
         /\ f' = IF motion_drags_point(e, m) \/ motion_drags_background(e, m)
                 THEN [f EXCEPT !.changed = 1] ELSE f
    /\ nev' = [nev EXCEPT !.events = @ + 1]
    /\ drag' = IF drag.phase = "dragging" THEN [drag EXCEPT !.moves = @ + 1] ELSE NoDrag
    /\ UNCHANGED <<pc, hw, drawn, written, res>>

Next == KeyQuit \/ Key \/ Button \/ Motion

Spec == Init /\ [][Next]_vars

\* ------------------------------------------------------------------------
\* The viewer under events, with the repaint cycles of the host between
\* them: each cycle consumes the flag f->changed
\* ------------------------------------------------------------------------

\* if (event.type == Expose || f->changed) { f->changed = 0; ... }
Repaint ==
    /\ pc = "run"
    /\ f.changed # 0
    /\ f' = [f EXCEPT !.changed = 0]
    /\ UNCHANGED <<e, ev, drag, nev, pc, hw, drawn, written, res>>

NextUI == KeyQuit \/ Key \/ Button \/ Motion \/ Repaint

SpecUI == Init /\ [][NextUI]_vars

\* ------------------------------------------------------------------------
\* The hull routine on its own: every array of up to MaxN grid points
\* ------------------------------------------------------------------------

MaxN == 4

GridPoints == {<<F(a), F(b)>> : a \in 0..3, b \in 0..2}

PointArrays(S, n) == UNION {[1..k -> S] : k \in 1..n}

\* a viewer whose inverted points y are given; x is not read by the hull step
HullInput(y) == [center_view(Loaded(Len(y), Uninit)) EXCEPT !.y = y]

InitHull ==
    /\ \E y \in PointArrays(GridPoints, MaxN) : e = HullInput(y)
    /\ f = [NewWindow EXCEPT !.changed = 1]
    /\ ev = NoEvent
    /\ drag = NoDrag
    /\ nev = [events |-> 0, scalings |-> 0]
    /\ pc = "input"
    /\ hw = 0
    /\ drawn = {}
    /\ written = {}
    /\ res = NoResult

Hull ==
    /\ pc = "input"
    /\ \E sorted \in qsort(e.y) :
         \E e2 \in {compute_red_points_convex_hull(e, sorted)} :
           /\ e' = e2
           /\ hw' = Len(e2.z)
    /\ ev' = [NoEvent EXCEPT !.type = "hull"]
    /\ pc' = "done"
    /\ UNCHANGED <<f, drag, nev, drawn, written, res>>

NextHull == Hull

SpecHull == InitHull /\ [][NextHull]_vars

\* ------------------------------------------------------------------------
\* The inversion step on its own: compute_points_inversion on given inputs
\* ------------------------------------------------------------------------

MaxInvN == 2

InvPoints == {<<F(0), F(0)>>, <<F(20), F(0)>>, <<F(3), F(4)>>, <<F(1), F(1)>>,
              <<F(0), F(5)>>, <<F(100), F(100)>>, <<F(103), F(96)>>}

InvCentres == {<<F(0), F(0)>>, <<F(100), F(100)>>}

InvRadii == {F(10), F(400)}

InitInvert ==
    /\ \E x \in PointArrays(InvPoints, MaxInvN), c \in InvCentres, R \in InvRadii :
         e = [center_view(Loaded(Len(x), x)) EXCEPT !.c = c, !.r = R]
    /\ f = [NewWindow EXCEPT !.changed = 1]
    /\ ev = NoEvent
    /\ drag = NoDrag
    /\ nev = [events |-> 0, scalings |-> 0]
    /\ pc = "input"
    /\ hw = 0
    /\ drawn = {}
    /\ written = {}
    /\ res = NoResult

Invert ==
    /\ pc = "input"
    /\ e' = compute_points_inversion(e)
    /\ ev' = [NoEvent EXCEPT !.type = "invert"]
    /\ pc' = "done"
    /\ UNCHANGED <<f, drag, nev, hw, drawn, written, res>>

NextInvert == Invert

SpecInvert == InitInvert /\ [][NextInvert]_vars

\* ------------------------------------------------------------------------
\* The inversion applied twice, to points at whole distances from the pole
\* ------------------------------------------------------------------------

\* displacements from the pole of lengths 0, 5, 10, 20, 25, 50
FlipOffsets == {<<F(0), F(0)>>, <<F(3), F(4)>>, <<F(0), F(5)>>, <<F(-6), F(8)>>,
                <<F(20), F(0)>>, <<F(0), F(-25)>>, <<F(30), F(40)>>}

FlipRadii == {F(10), F(400), <<5, 2>>}

FlipPoints(c) == {<<FAdd(c[1], d[1]), FAdd(c[2], d[2])>> : d \in FlipOffsets}

InitFlipTwice ==
    /\ \E c \in InvCentres, R \in FlipRadii :
         \E x \in PointArrays(FlipPoints(c), MaxInvN) :
           e = [center_view(Loaded(Len(x), x)) EXCEPT !.c = c, !.r = R]
    /\ f = [NewWindow EXCEPT !.changed = 1]
    /\ ev = NoEvent
    /\ drag = NoDrag
    /\ nev = [events |-> 0, scalings |-> 0]
    /\ pc = "input"
    /\ hw = 0
    /\ drawn = {}
    /\ written = {}
    /\ res = NoResult

\* paint_state applies invert_point again, to the inverted points that are on
\* the hull; here to every inverted point
InvertBack ==
    /\ pc = "done"
    /\ ev.type = "invert"
    /\ res' = invert_points(e.c, e.r, e.y)
    /\ ev' = [NoEvent EXCEPT !.type = "invert back"]
    /\ pc' = "back"
    /\ UNCHANGED <<e, f, drag, nev, hw, drawn, written>>

NextFlipTwice == Invert \/ InvertBack

SpecFlipTwice == InitFlipTwice /\ [][NextFlipTwice]_vars

\* ------------------------------------------------------------------------
\* One frame: event_expose / paint_state on a loaded point set
\* ------------------------------------------------------------------------

MaxPaintN == 3

\* points at whole distances from the centre handle dragged to view (0, 0)
PaintPoints == {<<F(0), F(0)>>, <<F(3), F(0)>>, <<F(4), F(0)>>, <<F(0), F(3)>>,
                <<F(3), F(4)>>}

InitPaint ==
    /\ \E x \in PointArrays(PaintPoints, MaxPaintN), d \in BOOLEAN :
         e = [center_view(Loaded(Len(x), x)) EXCEPT !.c = <<F(0), F(0)>>,
                                                    !.show_debug = d]
    /\ f = [NewWindow EXCEPT !.changed = 1]
    /\ ev = NoEvent
    /\ drag = NoDrag
    /\ nev = [events |-> 0, scalings |-> 0]
    /\ pc = "input"
    /\ hw = 0
    /\ drawn = {}
    /\ written = {}
    /\ res = NoResult

\* event_expose: if (f->changed) paint_state(f), the hull part of the frame
event_expose ==
    /\ pc = "input"
    /\ f.changed # 0
    /\ \E e1 \in {compute_points_inversion(e)} :
         \E sorted \in qsort(e1.y) :
           \E e2 \in {compute_red_points_convex_hull(e1, sorted)} :
             /\ e' = e2
             /\ hw' = Len(e2.z)
             /\ drawn' = hull_segments(e2)
    /\ ev' = [NoEvent EXCEPT !.type = "expose"]
    /\ pc' = "done"
    /\ UNCHANGED <<f, drag, nev, written, res>>

NextPaint == event_expose

SpecPaint == InitPaint /\ [][NextPaint]_vars

\* ------------------------------------------------------------------------
\* The view operations on their own: the two coordinate conversions and the
\* radius scaling, applied to given transforms, points and factors
\* ------------------------------------------------------------------------

OpOffsets == {<<F(0), F(0)>>, <<F(-172), F(-129)>>, <<<<-559, 10>>, <<-387, 10>>>>,
              <<F(30), F(-10)>>}

\* the scales the zoom keys reach from 1, and three they never reach
OpScales == {F(1), ZOOM_FACTOR, Recip(ZOOM_FACTOR), FMul(ZOOM_FACTOR, ZOOM_FACTOR),
             F(0), F(-2), <<1, 3>>}

OpPoints == {<<F(0), F(0)>>, <<F(100), F(100)>>, <<F(130), F(90)>>, <<<<1, 3>>, F(-7)>>,
             <<F(400), F(300)>>}

OpRadii == {F(400), <<40000, 113>>, F(1)}

\* the factors the wheel passes, and two it never passes
OpFactors == {RADIUS_FACTOR, Recip(RADIUS_FACTOR), F(0), F(-1)}

InitOps ==
    /\ \E o \in OpOffsets, s \in OpScales, R \in OpRadii :
         e = [center_view(Loaded(0, <<>>)) EXCEPT !.offset = o, !.scale = s, !.r = R]
    /\ f = NewWindow
    /\ ev = NoEvent
    /\ drag = NoDrag
    /\ nev = [events |-> 0, scalings |-> 0]
    /\ pc = "input"
    /\ hw = 0
    /\ drawn = {}
    /\ written = {}
    /\ res = NoResult

\* view -> window -> view
ViewRoundTrip ==
    /\ pc = "input"
    /\ \E p \in OpPoints :
         /\ ev' = [type |-> "view round trip", p |-> p]
         /\ res' = [there |-> map_view_to_window(e, p),
                    back  |-> map_window_to_view(e, map_view_to_window(e, p))]
    /\ pc' = "done"
    /\ UNCHANGED <<e, f, drag, nev, hw, drawn, written>>

\* window -> view -> window
WindowRoundTrip ==
    /\ pc = "input"
    /\ \E p \in OpPoints :
         /\ ev' = [type |-> "window round trip", p |-> p]
         /\ res' = [there |-> map_window_to_view(e, p),
                    back  |-> map_view_to_window(e, map_window_to_view(e, p))]
    /\ pc' = "done"
    /\ UNCHANGED <<e, f, drag, nev, hw, drawn, written>>

\* change_radius(e, x, y, fac)
ScaleRadius ==
    /\ pc = "input"
    /\ \E fac \in OpFactors, p \in Pointers :
         /\ e' = change_radius(e, p[1], p[2], fac)
         /\ ev' = [type |-> "radius", fac |-> fac, x |-> p[1], y |-> p[2]]
    /\ pc' = "done"
    /\ UNCHANGED <<f, drag, nev, hw, drawn, written, res>>

NextOps == ViewRoundTrip \/ WindowRoundTrip \/ ScaleRadius

SpecOps == InitOps /\ [][NextOps]_vars

\* ------------------------------------------------------------------------
\* The host window (src/other/ftr_x11.c): ftr_loop_run and process_next_event
\* with the handlers that main_pkatz registers
\* ------------------------------------------------------------------------

MaxXEvents == 3

\* a null pointer
NULL == "NULL"

\* the bit of the primary button in the state mask of an X event
Button1Mask == 256

\* struct _FTR as the window constructor and the ftr_set_handler calls of
\* main_pkatz leave it.  rgb is the room of the pixel buffer in bytes, ximage
\* the size of the XImage (<<>> while there is none).
HostWindow ==
    [w |-> 800, h |-> 600, max_w |-> 2000, max_h |-> 2000,
     rgb |-> 2000 * 2000 * 3,
     ximage |-> <<>>, imgupdate |-> 1,
     changed |-> 0, do_exit |-> 0,
     handle_key |-> "event_key", handle_button |-> "event_button",
     handle_motion |-> "event_motion", handle_expose |-> "event_expose",
     handle_resize |-> "event_resize", handle_expose2 |-> NULL,
     handle_idle |-> NULL, handle_idle_toggled |-> NULL]

\* the inputs of the host: key codes, X button numbers, state masks, sizes
HostKeys == {"q", "c", "+", "a"}

XButtons == 1..5

XStates == {0, Button1Mask}

XWidths == {800, 1000, 5000}

XHeights == {600, 5000}

\* one invocation of a handler: f->handle_...(ff, k, m, x, y)
Call(h, k, m, x, y) == [handler |-> h, k |-> k, m |-> m, x |-> x, y |-> y]

\* the X event taken by XNextEvent, with the handler invocations it led to
XEvent(type, k, m, x, y, calls) ==
    [type |-> type, k |-> k, m |-> m, x |-> x, y |-> y, calls |-> calls]

InitHost ==
    /\ e = center_view(Loaded(Len(LoadedPoints), LoadedPoints))
    /\ f = [HostWindow EXCEPT !.changed = 1]
    /\ ev = XEvent("none", 0, 0, 0, 0, <<>>)
    /\ drag = NoDrag
    /\ nev = [events |-> 0, scalings |-> 0]
    /\ pc = "loop"
    /\ hw = 0
    /\ drawn = {}
    /\ written = {}
    /\ res = NoResult

\* if (!f->ximage || f->imgupdate): a new XImage of the logical size
new_image(ff) ==
    IF ff.ximage = <<>> \/ ff.imgupdate # 0
    THEN [ff EXCEPT !.ximage = <<ff.w, ff.h>>, !.imgupdate = 0]
    ELSE ff

\* if (f->handle_expose2) f->handle_expose2(ff, 0, 0, 0, 0): ftr_handler_do_exit
expose2(ff) == IF ff.handle_expose2 # NULL THEN [ff EXCEPT !.do_exit = 1] ELSE ff

\* the first block of process_next_event: the flag is cleared, the pixel
\* buffer is copied to the XImage and put on the window
repaint(ff, type) ==
    IF type = "Expose" \/ ff.changed # 0
    THEN expose2(new_image([ff EXCEPT !.changed = 0]))
    ELSE ff

\* the block for ConfigureNotify without the comparison with max_w and max_h
configure_without_clamp(ff, width, height) ==
    IF ff.handle_resize # NULL /\ (ff.w # width \/ ff.h # height)
    THEN [ff EXCEPT !.w = width, !.h = height, !.changed = 1, !.imgupdate = 1]
    ELSE ff

\* the block for ConfigureNotify; event_resize sets f->changed
configure(ff, width, height) ==
    IF ff.handle_resize # NULL /\ (ff.w # width \/ ff.h # height)
    THEN [ff EXCEPT !.w = IF width < ff.max_w THEN width ELSE ff.max_w,
                    !.h = IF height < ff.max_h THEN height ELSE ff.max_h,
                    !.changed = 1,
                    !.imgupdate = 1]
    ELSE ff

\* while (!f->do_exit) if (XPending(f->display) > 0) process_next_event(ff)
HostRunning == pc = "loop" /\ f.do_exit = 0 /\ nev.events < MaxXEvents

XExpose ==
    /\ HostRunning
    /\ f' = repaint(f, "Expose")
    /\ ev' = XEvent("Expose", 0, 0, 0, 0, <<>>)
    /\ nev' = [nev EXCEPT !.events = @ + 1]
    /\ UNCHANGED <<e, drag, pc, hw, drawn, written, res>>

\* KeyPress with the key code of 'q': event_key asks the loop to stop
XKeyPressQuit ==
    /\ HostRunning
    /\ f.handle_key # NULL
    /\ \E p \in Pointers :
         ev' = XEvent("KeyPress", "q", 0, p[1], p[2],
                      <<Call(f.handle_key, "q", 0, p[1], p[2])>>)
    /\ f' = ftr_notify_the_desire_to_stop_this_loop(repaint(f, "KeyPress"))
    /\ nev' = [nev EXCEPT !.events = @ + 1]
    /\ UNCHANGED <<e, drag, pc, hw, drawn, written, res>>

XKeyPress ==
    /\ HostRunning
    /\ f.handle_key # NULL
    /\ \E k \in HostKeys \ {"q"}, p \in Pointers :
         \E f1 \in {repaint(f, "KeyPress")} :
           \E e2 \in {event_key(e, f1, k)} :
             /\ Rescales(e, e2) => nev.scalings < MaxScalings
             /\ e' = e2
             /\ f' = [f1 EXCEPT !.changed = 1]
             /\ ev' = XEvent("KeyPress", k, 0, p[1], p[2],
                             <<Call(f.handle_key, k, 0, p[1], p[2])>>)
             /\ nev' = Count(e, e2)
    /\ UNCHANGED <<drag, pc, hw, drawn, written, res>>

\* ButtonPress: the handler gets e.button, the number of the X button
XButtonPress ==
    /\ HostRunning
    /\ f.handle_button # NULL
    /\ \E b \in XButtons, m \in XStates, p \in Pointers :
         \E e2 \in {event_button(e, b, p[1], p[2])} :
           /\ Rescales(e, e2) => nev.scalings < MaxScalings
           /\ e' = e2
           /\ ev' = XEvent("ButtonPress", b, m, p[1], p[2],
                           <<Call(f.handle_button, b, m, p[1], p[2])>>)
           /\ nev' = Count(e, e2)
    /\ f' = [repaint(f, "ButtonPress") EXCEPT !.changed = 1]
    /\ UNCHANGED <<drag, pc, hw, drawn, written, res>>

\* ButtonRelease: no block of process_next_event tests for it
XButtonRelease ==
    /\ HostRunning
    /\ \E b \in XButtons, m \in XStates, p \in Pointers :
         ev' = XEvent("ButtonRelease", b, m, p[1], p[2], <<>>)
    /\ f' = repaint(f, "ButtonRelease")
    /\ nev' = [nev EXCEPT !.events = @ + 1]
    /\ UNCHANGED <<e, drag, pc, hw, drawn, written, res>>

XMotionNotify ==
    /\ HostRunning
    /\ f.handle_motion # NULL
    /\ \E m \in XStates, p \in Pointers :
         /\ e' = event_motion(e, m, p[1], p[2])
         /\ ev' = XEvent("MotionNotify", 0, m, p[1], p[2],
                         <<Call(f.handle_motion, 0, m, p[1], p[2])>>)
         /\ f' = IF motion_drags_point(e, m) \/ motion_drags_background(e, m)
                 THEN [repaint(f, "MotionNotify") EXCEPT !.changed = 1]
                 ELSE repaint(f, "MotionNotify")
    /\ nev' = [nev EXCEPT !.events = @ + 1]
    /\ UNCHANGED <<drag, pc, hw, drawn, written, res>>

\* ConfigureNotify reporting width x height (in ev: x = width, y = height)
XConfigureNotify ==
    /\ HostRunning
    /\ \E width \in XWidths, height \in XHeights :
         \E f1 \in {repaint(f, "ConfigureNotify")} :
           /\ f' = configure(f1, width, height)
           /\ ev' = XEvent("ConfigureNotify", 0, 0, width, height,
                           IF f1.handle_resize # NULL /\ (f1.w # width \/ f1.h # height)
                           THEN <<Call(f1.handle_resize, 0, 0,
                                       configure(f1, width, height).w,
                                       configure(f1, width, height).h)>>
                           ELSE <<>>)
    /\ nev' = [nev EXCEPT !.events = @ + 1]
    /\ UNCHANGED <<e, drag, pc, hw, drawn, written, res>>

\* a variant of the end of ftr_loop_run that leaves the request standing
loop_exit_keeping_request(ff) == ff

\* int r = f->do_exit; f->do_exit = 0; return r
loop_exit(ff) == [ff EXCEPT !.do_exit = 0]

LoopReturn ==
    /\ pc = "loop"
    /\ f.do_exit # 0
    /\ res' = f.do_exit
    /\ f' = loop_exit(f)
    /\ pc' = "returned"
    /\ UNCHANGED <<e, ev, drag, nev, hw, drawn, written>>

NextHost ==
    \/ XExpose
    \/ XKeyPressQuit
    \/ XKeyPress
    \/ XButtonPress
    \/ XButtonRelease
    \/ XMotionNotify
    \/ XConfigureNotify
    \/ LoopReturn

SpecHost == InitHost /\ [][NextHost]_vars

\* ------------------------------------------------------------------------
\* The drawing primitives on their own, on small windows
\* ------------------------------------------------------------------------

\* how far beyond the window the pixels asked for reach
RasterSpan == 1

RasterSizes == {<<4, 3>>, <<3, 5>>}

RasterCoords(n) == (-RasterSpan)..(n - 1 + RasterSpan)

RasterRadii == 0..3

\* positions of the centre handle in the window, some of them no numbers
RasterCentres == {<<F(0), F(0)>>, <<<<3, 2>>, <<5, 2>>>>, <<F(-3), F(1)>>,
                  <<<<39, 10>>, <<29, 10>>>>, <<F(10), F(10)>>, <<NaN, NaN>>,
                  <<<<1, 0>>, F(1)>>}

\* what a build makes of an undefined conversion to int
UndefinedInts == {-2147483647 - 1, 0, 2147483647}

InitRaster ==
    /\ \E c \in RasterCentres :
         e = [center_view(Loaded(0, <<>>)) EXCEPT !.c = c]
    /\ \E s \in RasterSizes : f = [NewWindow EXCEPT !.w = s[1], !.h = s[2]]
    /\ ev = NoEvent
    /\ drag = NoDrag
    /\ nev = [events |-> 0, scalings |-> 0]
    /\ pc = "input"
    /\ hw = 0
    /\ drawn = {}
    /\ written = {}
    /\ res = NoResult

PlotPixel ==
    /\ pc = "input"
    /\ \E x \in RasterCoords(f.w), y \in RasterCoords(f.h) :
         /\ written' = plot_pixel(f, x, y)
         /\ ev' = [type |-> "pixel", x |-> x, y |-> y]
    /\ pc' = "done"
    /\ UNCHANGED <<e, f, drag, nev, hw, drawn, res>>

PlotSegment ==
    /\ pc = "input"
    /\ \E px, qx \in RasterCoords(f.w), py, qy \in RasterCoords(f.h) :
         /\ res' = traverse_segment(px, py, qx, qy)
         /\ written' = plot_pixels(f, pixels_of(traverse_segment(px, py, qx, qy)))
         /\ ev' = [type |-> "segment", x |-> px, y |-> py, qx |-> qx, qy |-> qy]
    /\ pc' = "done"
    /\ UNCHANGED <<e, f, drag, nev, hw, drawn>>

PlotCircle ==
    /\ pc = "input"
    /\ \E cx \in RasterCoords(f.w), cy \in RasterCoords(f.h), r \in RasterRadii :
         /\ written' = plot_pixels(f, traverse_circle(cx, cy, r))
         /\ ev' = [type |-> "circle", x |-> cx, y |-> cy, r |-> r]
    /\ pc' = "done"
    /\ UNCHANGED <<e, f, drag, nev, hw, drawn, res>>

DrawViewCenter ==
    /\ pc = "input"
    /\ \E u \in UndefinedInts :
         /\ written' = draw_view_center(f, e, u)
         /\ ev' = [type |-> "centre", x |-> u, y |-> u]
    /\ pc' = "done"
    /\ UNCHANGED <<e, f, drag, nev, hw, drawn, res>>

NextRaster == PlotPixel \/ PlotSegment \/ PlotCircle \/ DrawViewCenter

SpecRaster == InitRaster /\ [][NextRaster]_vars

\* ------------------------------------------------------------------------
\* ftr_wait_for_mouse_click: the loop run with handle_click_wait
\* ------------------------------------------------------------------------

\* pointer positions of the presses, corners and borders of the window included
ClickPositions == {<<0, 0>>, <<100, 100>>, <<799, 599>>, <<0, 5>>, <<7, 0>>,
                   <<9999, 2>>}

\* r / 10000 and r % 10000 of C, which truncate towards zero
Quotient(r) == ToInt(<<r, 10000>>)

Remainder(r) == r - 10000 * Quotient(r)

\* if (b == 1 || b == 2 || b == 3) f->do_exit = 10000*y + x
handle_click_wait(ff, b, m, x, y) ==
    IF b = 1 \/ b = 2 \/ b = 3 THEN [ff EXCEPT !.do_exit = 10000 * y + x] ELSE ff

InitClick ==
    /\ e = center_view(Loaded(Len(LoadedPoints), LoadedPoints))
    /\ f = HostWindow
    /\ ev = XEvent("none", 0, 0, 0, 0, <<>>)
    /\ drag = NoDrag
    /\ nev = [events |-> 0, scalings |-> 0]
    /\ pc = "call"
    /\ hw = 0
    /\ drawn = {}
    /\ written = {}
    /\ res = NoResult

\* ftr_set_handler(f, "button", handle_click_wait), then ftr_loop_run(f)
WaitForClick ==
    /\ pc = "call"
    /\ f' = [f EXCEPT !.handle_button = "handle_click_wait"]
    /\ pc' = "loop"
    /\ UNCHANGED <<e, ev, drag, nev, hw, drawn, written, res>>

\* ButtonPress while handle_click_wait is the button handler
ClickButtonPress ==
    /\ HostRunning
    /\ f.handle_button = "handle_click_wait"
    /\ \E b \in XButtons, m \in XStates, p \in ClickPositions :
         /\ f' = handle_click_wait(repaint(f, "ButtonPress"), b, m, p[1], p[2])
         /\ ev' = XEvent("ButtonPress", b, m, p[1], p[2],
                         <<Call(f.handle_button, b, m, p[1], p[2])>>)
    /\ nev' = [nev EXCEPT !.events = @ + 1]
    /\ UNCHANGED <<e, drag, pc, hw, drawn, written, res>>

\* the loop ends with r = f->do_exit; then *x = r % 10000, *y = r / 10000
WaitReturn ==
    /\ pc = "loop"
    /\ f.do_exit # 0
    /\ res' = [r |-> f.do_exit, x |-> Remainder(f.do_exit), y |-> Quotient(f.do_exit)]
    /\ f' = loop_exit(f)
    /\ pc' = "returned"
    /\ UNCHANGED <<e, ev, drag, nev, hw, drawn, written>>

NextClick ==
    \/ WaitForClick
    \/ XExpose
    \/ XButtonRelease
    \/ XMotionNotify
    \/ ClickButtonPress
    \/ WaitReturn

SpecClick == InitClick /\ [][NextClick]_vars

\* ------------------------------------------------------------------------
\* Properties
\* ------------------------------------------------------------------------

NumberOfDragFlags(ee) ==
    (IF ee.dragging_window_point THEN 1 ELSE 0)
    + (IF ee.dragging_image_point THEN 1 ELSE 0)
    + (IF ee.dragging_background THEN 1 ELSE 0)

Idle(ee) == NumberOfDragFlags(ee) = 0

DraggingCenterWindow(ee) == NumberOfDragFlags(ee) = 1 /\ ee.dragging_window_point

DraggingCenterImage(ee) == NumberOfDragFlags(ee) = 1 /\ ee.dragging_image_point

DraggingBackground(ee) == NumberOfDragFlags(ee) = 1 /\ ee.dragging_background

\* C1: after any sequence of key, button and motion events from the reset
\* state, at most one of dragging_window_point, dragging_image_point and
\* dragging_background is true.
C1_AtMostOneDragFlag == pc = "run" => NumberOfDragFlags(e) <= 1

\* C2: after event_key has handled any key, from any drag state, all three
\* drag flags are false.  (Stated for the keys that reach the end of the
\* handler; for 'q' it returns at once and the loop stops.)
C2_KeyLeavesIdle == (pc = "run" /\ ev.type = "key" /\ ev.k # "q") => Idle(e)

\* C3: a primary-button release leaves the state Idle if it was
\* DraggingCenterWindow or DraggingBackground, and a secondary-button release
\* leaves it Idle if it was DraggingCenterImage.
C3_ReleaseLeavesDragMode ==
    [][(ev'.type = "button" /\ pc = "run")
       => /\ (ev'.k = -FTR_BUTTON_LEFT /\ (DraggingCenterWindow(e) \/ DraggingBackground(e)))
               => Idle(e')
          /\ (ev'.k = -FTR_BUTTON_RIGHT /\ DraggingCenterImage(e)) => Idle(e')]_vars

\* C4: a primary press at (x0,y0) that misses the handle, then any motion
\* events, then a primary release at (x1,y1): the offset is the offset before
\* the press plus (x1-x0, y1-y0), and the scale is the scale before the press.
C4_BackgroundDragOffset ==
    drag.phase = "released"
    => /\ e.offset = <<FAdd(drag.offset0[1], F(ev.x - drag.x0)),
                       FAdd(drag.offset0[2], F(ev.y - drag.y0))>>
       /\ e.scale = drag.scale0

\* the drag of the example: press (100,100), move, release (130,90)
C4_Witness ==
    /\ drag.phase = "released"
    /\ drag.moves >= 1
    /\ <<drag.x0, drag.y0>> = <<100, 100>>
    /\ <<ev.x, ev.y>> = <<130, 90>>
    /\ e.offset = <<FAdd(drag.offset0[1], F(30)), FAdd(drag.offset0[2], F(-10))>>

\* C5: for every input of n >= 1 points the hull routine returns m <= n and
\* stores at most n points, the room of the hull buffer z.
C5_HullFitsBuffer == (pc = "done" /\ ev.type = "hull") => (e.m <= e.n /\ hw <= e.n)

AllCollinear(x) ==
    \A i, j, k \in 1..Len(x) : det(x[i], x[j], x[k]) = F(0)

Distinct(x) == \A i, j \in 1..Len(x) : x[i] = x[j] => i = j

Range(x) == {x[i] : i \in 1..Len(x)}

\* C6: for n >= 3 points not all collinear, every returned point is an input
\* point and every input point p has det(z[i], z[i+1], p) >= 0 for i in 0..m-2.
C6_HullContainsInput ==
    (pc = "done" /\ ev.type = "hull" /\ e.n >= 3 /\ ~AllCollinear(e.y))
    => /\ \A i \in 1..e.m : e.z[i] \in Range(e.y)
       /\ \A i \in 1..(e.m - 1) : \A p \in Range(e.y) :
             FLe(F(0), det(e.z[i], e.z[i + 1], p))

\* a hull with an input point strictly inside it
C6_Witness ==
    /\ pc = "done" /\ ev.type = "hull" /\ e.n >= 3 /\ ~AllCollinear(e.y)
    /\ \E p \in Range(e.y) :
         \A i \in 1..(e.m - 1) : FLt(F(0), det(e.z[i], e.z[i + 1], p))

\* C7: for three or more distinct collinear points the returned hull is the
\* lexicographically smallest point, the largest, and the smallest again.
C7_CollinearHull ==
    (pc = "done" /\ ev.type = "hull" /\ e.n >= 3 /\ Distinct(e.y) /\ AllCollinear(e.y))
    => /\ e.m = 3
       /\ SubSeq(e.z, 1, e.m) = <<e.y[1], e.y[e.n], e.y[1]>>

\* four collinear points
C7_Witness ==
    /\ pc = "done" /\ ev.type = "hull" /\ e.n = 4 /\ Distinct(e.y) /\ AllCollinear(e.y)
    /\ e.m = 3

\* C8: for n = 1 or n = 2 input points the hull is the input points (m = n)
\* and the frame's hull loop draws no segment.
C8_SmallHullDrawsNothing ==
    (pc = "done" /\ ev.type = "expose" /\ e.n < 3)
    => /\ e.m = e.n
       /\ SubSeq(e.z, 1, e.m) = e.y
       /\ drawn = {}

\* C9: a point of the point set that coincides with the pole is returned
\* unchanged, and every inverted point of the frame is defined.
C9_PoleIsGuarded ==
    (pc = "done" /\ ev.type = "invert")
    => \A i \in 1..e.n :
          /\ ~IsNaN(e.y[i][1]) /\ ~IsNaN(e.y[i][2])
          /\ e.x[i] = e.c => e.y[i] = e.x[i]

WholeDistances == {F(d) : d \in 1..200}

SquaredDistance(p, c) ==
    FAdd(FMul(FSub(p[1], c[1]), FSub(p[1], c[1])), FMul(FSub(p[2], c[2]), FSub(p[2], c[2])))

\* C10: for a point p at distance r > 0 from the pole c the image q has
\* q - c = ((2R - r)/r)(p - c); for c = (0,0), R = 10, p = (20,0) it is (0,0).
\* (Stated for the whole distances r, which hypot returns exactly.)
C10_FlipFormula ==
    (pc = "done" /\ ev.type = "invert")
    => \A i \in 1..e.n :
          /\ \A r \in WholeDistances :
                FMul(r, r) = SquaredDistance(e.x[i], e.c)
                => \A j \in 1..2 :
                      FSub(e.y[i][j], e.c[j])
                      = FMul(FDiv(FSub(FMul(F(2), e.r), r), r), FSub(e.x[i][j], e.c[j]))
          /\ (e.c = <<F(0), F(0)>> /\ e.r = F(10) /\ e.x[i] = <<F(20), F(0)>>)
                => e.y[i] = <<F(0), F(0)>>

\* the example, and a point off the axes at distance 5
C10_Witness ==
    /\ pc = "done" /\ ev.type = "invert"
    /\ e.c = <<F(0), F(0)>> /\ e.r = F(10) /\ e.n = 2
    /\ e.x = << <<F(20), F(0)>>, <<F(3), F(4)>> >>
    /\ e.y = << <<F(0), F(0)>>, <<F(9), F(12)>> >>

RoundTripDone == pc = "done" /\ ev.type \in {"view round trip", "window round trip"}

\* C11: for any offset, any scale # 0 and any point p, map_window_to_view of
\* map_view_to_window(p) under the same transform is p, and
\* map_view_to_window of map_window_to_view(p) is p.  (Floats are exact here:
\* the equality is the one that holds up to rounding in the program.)
C11_RoundTrip == (RoundTripDone /\ e.scale # F(0)) => res.back = ev.p

\* a window point taken to the view and back under a zoomed, panned transform
C11_Witness ==
    /\ pc = "done" /\ ev.type = "window round trip"
    /\ e.scale = Recip(ZOOM_FACTOR) /\ e.offset = <<F(30), F(-10)>>
    /\ ev.p = <<F(130), F(90)>>
    /\ res.there = <<F(143), F(143)>>
    /\ res.back = ev.p

\* the zoom requests of a step: the keys '+' and '-', and the wheel off the handle
ZoomKey == ev'.type = "key" /\ ev'.k \in {"+", "-"}

ZoomWheel ==
    /\ ev'.type = "button"
    /\ ev'.k \in {FTR_BUTTON_UP, FTR_BUTTON_DOWN}
    /\ hit_point(e, ev'.x, ev'.y) < 0

\* the step multiplies the scale by fac and keeps the view point under X under X
ZoomedAbout(X, fac) ==
    /\ e'.scale = FMul(e.scale, fac)
    /\ map_view_to_window(e', map_window_to_view(e, X)) = X

\* C12: a zoom by fac about window point X (the window centre (w/2, h/2) for
\* the keys '+' and '-', the pointer for the wheel) multiplies the scale by fac
\* and the view point that mapped to X before the zoom maps to X after it.
C12_ZoomKeepsPoint ==
    [][/\ (pc = "run" /\ ZoomKey)
          => ZoomedAbout(<<F(f.w \div 2), F(f.h \div 2)>>,
                         IF ev'.k = "+" THEN ZOOM_FACTOR ELSE Recip(ZOOM_FACTOR))
       /\ (pc = "run" /\ ZoomWheel)
          => ZoomedAbout(<<F(ev'.x), F(ev'.y)>>,
                         IF ev'.k = FTR_BUTTON_DOWN THEN ZOOM_FACTOR
                         ELSE Recip(ZOOM_FACTOR))]_vars

\* '+' at scale 1 after a pan by (10, 0): the view point (390, 300) stays at
\* the window centre (400, 300)
C12_Witness ==
    /\ pc = "run" /\ ev.type = "key" /\ ev.k = "+"
    /\ e.scale = ZOOM_FACTOR
    /\ e.offset = <<FSub(F(400), FMul(ZOOM_FACTOR, F(390))), F(-129)>>
    /\ map_view_to_window(e, <<F(390), F(300)>>) = <<F(400), F(300)>>

\* C13: in every state reachable from the reset state by key, button and
\* motion events the view scale is not zero, so the view transform stays
\* invertible.
C13_ScaleNonZero == pc = "run" => e.scale # F(0)

\* a wheel step that zooms out, after which the window origin still has its
\* view point
C13_Witness ==
    /\ pc = "run" /\ ev.type = "button" /\ ev.k = FTR_BUTTON_UP
    /\ e.scale = Recip(ZOOM_FACTOR)
    /\ map_view_to_window(e, map_window_to_view(e, <<F(0), F(0)>>)) = <<F(0), F(0)>>

Processes(type) == pc = "loop" /\ nev'.events = nev.events + 1 /\ ev'.type = type

Min(a, b) == IF a < b THEN a ELSE b

\* C15: after the host has processed a resize notification the logical width
\* and height are min(reported width, max_w) and min(reported height, max_h),
\* the pixel buffer is the one allocated at the start and imgupdate is set
\* (a resize notification reports a size other than the current one; a
\* ConfigureNotify that reports the current size changes nothing); hence
\* w <= max_w and h <= max_h after any sequence of events.
C15_ResizeClamps ==
    /\ [](pc \in {"loop", "returned"} => (f.w <= f.max_w /\ f.h <= f.max_h))
    /\ [][Processes("ConfigureNotify")
          => /\ f'.w = Min(ev'.x, f.max_w)
             /\ f'.h = Min(ev'.y, f.max_h)
             /\ f'.rgb = f.rgb /\ f'.max_w = f.max_w /\ f'.max_h = f.max_h
             /\ (f.w # ev'.x \/ f.h # ev'.y) => f'.imgupdate = 1]_vars

\* width 5000 reported against the maximum 2000, after a frame was shown
C15_Witness ==
    /\ pc = "loop" /\ ev.type = "ConfigureNotify" /\ ev.x = 5000 /\ ev.y = 600
    /\ f.ximage = <<800, 600>>
    /\ f.w = 2000 /\ f.h = 600 /\ f.imgupdate = 1 /\ f.rgb = 2000 * 2000 * 3

\* the handler h is among the invocations that the event of ev made
Invoked(event, h) == \E i \in 1..Len(event.calls) : event.calls[i].handler = h

\* C16: whenever an input handler has set the dirty flag f->changed, the next
\* repaint cycle of the host invokes the registered expose handler, so that
\* event_expose runs paint_state before the pixel buffer is presented and the
\* flag is cleared.
C16_ExposeHandlerRuns ==
    [][(/\ pc = "loop" /\ nev'.events = nev.events + 1
        /\ ev.calls # <<>> /\ f.changed # 0
        /\ f.handle_expose # NULL)
       => Invoked(ev', f.handle_expose)]_vars

\* C17: the host delivers button presses and button releases to the
\* registered button handler, a press with a positive button id and a release
\* with the negated id, so that the release of a button reaches the handler
\* that saw its press.
C17_ReleaseDelivered ==
    [][/\ (Processes("ButtonPress") /\ f.handle_button # NULL)
          => \E i \in 1..Len(ev'.calls) :
                ev'.calls[i].handler = f.handle_button /\ ev'.calls[i].k > 0
       /\ (Processes("ButtonRelease") /\ f.handle_button # NULL)
          => \E i \in 1..Len(ev'.calls) :
                ev'.calls[i].handler = f.handle_button /\ ev'.calls[i].k < 0]_vars

\* C18: ftr_loop_run keeps processing events while do_exit is 0 and returns
\* only after a handler has requested exit; the event in which the exit was
\* requested is processed to completion, no later event is processed, the
\* value returned is the do_exit code requested and do_exit is 0 again when
\* the function returns.
C18_LoopReturn ==
    [][/\ pc # "returned"
       /\ (pc = "loop" /\ f.do_exit = 0)
          => /\ pc' = "loop"
             /\ nev'.events = nev.events + 1
             /\ f'.do_exit # 0 => ev'.calls # <<>>
       /\ (pc = "loop" /\ f.do_exit # 0)
          => /\ pc' = "returned"
             /\ res' = f.do_exit
             /\ f'.do_exit = 0
             /\ ev' = ev /\ nev' = nev /\ e' = e]_vars

\* the loop has returned after the key 'q', the second event it processed
C18_Witness ==
    /\ pc = "returned" /\ res # 0 /\ f.do_exit = 0
    /\ ev.type = "KeyPress" /\ ev.k = "q" /\ nev.events = 2

\* C19: every invocation of event_key, event_button or event_motion that
\* changes any field of the viewer state leaves f->changed equal to 1 when it
\* returns, for every event and every prior state.
C19_ChangeSetsFlag ==
    [][(pc = "run" /\ nev'.events = nev.events + 1 /\ e' # e) => f'.changed = 1]_vars

\* a motion event that moved the view during a background drag
C19_Witness ==
    /\ pc = "run" /\ ev.type = "motion" /\ ev.m = FTR_BUTTON_LEFT
    /\ drag.phase = "dragging" /\ drag.moves = 1
    /\ e.offset # drag.offset0
    /\ e.drag_handle = <<ev.x, ev.y>>
    /\ f.changed = 1

RasterDone == pc = "done" /\ ev.type \in {"pixel", "segment", "circle", "centre"}

\* C20: every pixel write of the drawing primitives (plot_pixel_* reached
\* through traverse_segment and traverse_circle, splat_disk, the centre dot of
\* draw_view_center) targets a byte index in [0, 3*w*h), and a plot request
\* for a pixel outside 0 <= x < w, 0 <= y < h leaves the buffer unchanged.
C20_WritesInsideBuffer ==
    RasterDone
    => /\ written \subseteq 0..(3 * f.w * f.h - 1)
       /\ (ev.type = "pixel" /\ ~(0 <= ev.x /\ ev.x < f.w /\ 0 <= ev.y /\ ev.y < f.h))
             => written = {}

\* a segment from a pixel left of the window to one in its last column: the
\* part inside is written, the part outside is not
C20_Witness ==
    /\ pc = "done" /\ ev.type = "segment"
    /\ f.w = 4 /\ f.h = 3
    /\ <<ev.x, ev.y>> = <<-1, 1>> /\ <<ev.qx, ev.qy>> = <<4, 1>>
    /\ written = UNION {pixel_bytes(f.w * 1 + x) : x \in 0..3}

\* C21: in every state reachable by key events (and the other events of the
\* viewer) the interpolation order stored in the viewer state is one of
\* 0, 1, 2, 3.
C21_InterpolationOrderRange == pc = "run" => e.interpolation_order \in 0..3

\* a step of the viewer that handles a press of the primary button
PrimaryPress ==
    /\ pc = "run"
    /\ nev'.events = nev.events + 1
    /\ ev'.type = "button"
    /\ ev'.k = FTR_BUTTON_LEFT

\* whether the pointer of the press is within DISK_RADIUS + 2 of the window
\* projection of the inversion centre
PressOnHandle == within_handle(map_view_to_window(e, e.c), ev'.x, ev'.y)

\* C22: a primary-button press at (x,y) enters DraggingCenterWindow exactly
\* when (x,y) is at distance strictly less than DISK_RADIUS + 2 from the
\* window projection of the inversion centre, and otherwise enters
\* DraggingBackground with the anchor set to (x,y); the press never sets both
\* dragging_window_point and dragging_background.
C22_PrimaryPressMode ==
    [][PrimaryPress =>
         /\ PressOnHandle <=> DraggingCenterWindow(e')
         /\ ~PressOnHandle =>
               (DraggingBackground(e') /\ e'.drag_handle = <<ev'.x, ev'.y>>)
         /\ ~(/\ e'.dragging_window_point /\ ~e.dragging_window_point
              /\ e'.dragging_background /\ ~e.dragging_background)]_vars

\* a step of the viewer that handles a wheel event
Wheel ==
    /\ pc = "run"
    /\ nev'.events = nev.events + 1
    /\ ev'.type = "button"
    /\ ev'.k \in {FTR_BUTTON_DOWN, FTR_BUTTON_UP}

WheelOnHandle == within_handle(map_view_to_window(e, e.c), ev'.x, ev'.y)

\* C23: a wheel event with the pointer over the centre handle multiplies only
\* the inversion radius, by RADIUS_FACTOR ('down') or its reciprocal ('up'),
\* and leaves view scale, view offset and inversion centre unchanged; with the
\* pointer not over the handle it changes only view scale and offset and
\* leaves the inversion radius and centre unchanged; in both cases the drag
\* flags (and every other field of the viewer state) are unchanged.
C23_WheelFrame ==
    [][Wheel =>
         IF WheelOnHandle
         THEN e' = [e EXCEPT !.r = FMul(e.r, IF ev'.k = FTR_BUTTON_DOWN
                                             THEN RADIUS_FACTOR
                                             ELSE Recip(RADIUS_FACTOR))]
         ELSE /\ [e' EXCEPT !.scale = e.scale, !.offset = e.offset] = e
              /\ e'.scale = FMul(e.scale, IF ev'.k = FTR_BUTTON_DOWN
                                          THEN ZOOM_FACTOR
                                          ELSE Recip(ZOOM_FACTOR))]_vars

\* a wheel 'down' over the handle while the centre is being dragged: the
\* radius is 400 * 1.13, the view is as after reset, the drag goes on
C23_Witness ==
    /\ pc = "run" /\ ev.type = "button" /\ ev.k = FTR_BUTTON_DOWN
    /\ <<ev.x, ev.y>> = <<105, 100>>
    /\ e.r = FMul(F(400), RADIUS_FACTOR)
    /\ e.scale = F(1) /\ e.offset = <<F(0), F(0)>> /\ e.c = <<F(100), F(100)>>
    /\ e.dragging_window_point /\ ~e.dragging_background

\* the point is an input point that no input point precedes in the order of
\* compare_points_lexicographically
Smallest(p, x) ==
    /\ p \in Range(x)
    /\ \A q \in Range(x) : compare_points_lexicographically(p, q) <= 0

\* C24: for every input of n >= 2 points the hull sequence returned by
\* do_the_andrew_parkour starts and ends with the same point, the
\* lexicographically smallest input point (z[0] = z[m-1]), so that the edges
\* i = 0..m-2 form a closed loop.
C24_HullIsClosed ==
    (pc = "done" /\ ev.type = "hull" /\ e.n >= 2)
    => /\ e.z[1] = e.z[e.m]
       /\ Smallest(e.z[1], e.y)

\* a quadrilateral given out of order: five hull points, the fifth the first
C24_Witness ==
    /\ pc = "done" /\ ev.type = "hull" /\ e.n = 4 /\ e.m = 5
    /\ e.z[1] = <<F(0), F(0)>> /\ e.z[5] = <<F(0), F(0)>>
    /\ e.z[2] # e.z[1] /\ e.z[3] # e.z[1] /\ e.z[4] # e.z[1]

\* C25: the convex hull step sorts a working copy of the inverted points and
\* leaves the inverted points themselves unchanged, so that after a frame has
\* been rendered y[i] is still the image of x[i] under the current inversion
\* map for every index i; the points x are likewise unchanged.
C25_FrameKeepsInvertedPoints ==
    [][(pc = "input" /\ ev'.type = "expose")
       => /\ e'.x = e.x
          /\ e'.y = invert_points(e'.c, e'.r, e'.x)]_pc

\* C26: for pole c, radius R > 0 and every point p with 0 < |p - c| < 2R,
\* applying invert_point twice with the same c and R returns p; for
\* |p - c| > 2R the second application does not return p.
\* (Stated for the whole distances r, which hypot returns exactly.)
C26_FlipTwice ==
    (pc = "back" /\ ev.type = "invert back")
    => \A i \in 1..e.n : \A r \in WholeDistances :
          FMul(r, r) = SquaredDistance(e.x[i], e.c)
          => /\ FLt(r, FMul(F(2), e.r)) => res[i] = e.x[i]
             /\ FLt(FMul(F(2), e.r), r) => res[i] # e.x[i]

\* R = 10 about (0,0): (3,4) at distance 5 goes to (9,12) and comes back,
\* (30,40) at distance 50 goes to (-18,-24) and then to (6,8)
C26_Witness ==
    /\ pc = "back" /\ ev.type = "invert back"
    /\ e.c = <<F(0), F(0)>> /\ e.r = F(10)
    /\ e.x = << <<F(3), F(4)>>, <<F(30), F(40)>> >>
    /\ e.y = << <<F(9), F(12)>>, <<F(-18), F(-24)>> >>
    /\ res = << <<F(3), F(4)>>, <<F(6), F(8)>> >>

\* the number of nested recursive calls of traverse_segment(p, q)
RECURSIVE swaps(_, _, _, _)
swaps(px, py, qx, qy) ==
    IF px = qx /\ py = qy THEN 0
    ELSE IF qx + qy < px + py THEN 1 + swaps(qx, qy, px, py)
    ELSE 0

\* the divisor of the slope in the branch taken for a segment in order
slope_divisor(px, py, qx, qy) ==
    IF qx - px > qy - py \/ px - qx > qy - py THEN qx - px ELSE qy - py

\* the segment as it reaches the loops: swapped if in a bad quadrant
in_order(px, py, qx, qy) ==
    IF qx + qy < px + py THEN <<qx, qy, px, py>> ELSE <<px, py, qx, qy>>

SlopeDefined(s) == slope_divisor(s[1], s[2], s[3], s[4]) # 0

\* C27: for any two integer pixels p and q, traverse_segment(p, q) makes at
\* most one recursive (endpoint-swapping) call, never divides by zero, and
\* calls the plot function on both endpoint pixels p and q (exactly once, on
\* p, when p = q).
C27_SegmentReachesEndpoints ==
    (pc = "done" /\ ev.type = "segment")
    => /\ swaps(ev.x, ev.y, ev.qx, ev.qy) <= 1
       /\ <<ev.x, ev.y>> # <<ev.qx, ev.qy>>
             => SlopeDefined(in_order(ev.x, ev.y, ev.qx, ev.qy))
       /\ <<ev.x, ev.y>> \in pixels_of(res)
       /\ <<ev.qx, ev.qy>> \in pixels_of(res)
       /\ <<ev.x, ev.y>> = <<ev.qx, ev.qy>> => res = << <<ev.x, ev.y>> >>

\* the loop of ftr_wait_for_mouse_click takes a press of button 1, 2 or 3
ClickPressed ==
    /\ pc = "loop"
    /\ nev'.events = nev.events + 1
    /\ ev'.type = "ButtonPress"
    /\ ev'.k \in {1, 2, 3}

\* C28: ftr_wait_for_mouse_click returns after the first press of mouse
\* button 1, 2 or 3 at any window position (x,y) with 0 <= x < 10000 and
\* y >= 0 (the press leaves an exit code that ends the loop), and then *x and
\* *y equal the position of that press.
C28_ClickReturnsPosition ==
    /\ [](pc = "returned" => (res.x = ev.x /\ res.y = ev.y))
    /\ [][ClickPressed => f'.do_exit # 0]_vars

====
